---- MODULE Spec2Model ----
(***************************************************************************)
(* A model of AudioSource (static/src/js/audio.js): its fields, the three  *)
(* initializers, the partial-initialization rollback, the tick drivers     *)
(* (audio-processing callback, feature-extractor callback, poll loop) and  *)
(* destroy(), together with the part of the Web Audio platform they act on *)
(* (audio contexts, nodes, the animation-frame queue, media elements).     *)
(*                                                                         *)
(* Platform objects are named by the initializer attempt that created      *)
(* them: attempt n creates context n, analyser n, source n, script         *)
(* processor n, feature extractor n and microphone stream n.  Id EXT names *)
(* the analyser and the context of the caller of connectExternalAnalyser.  *)
(***************************************************************************)
EXTENDS Integers, Sequences, FiniteSets, TLC

\* ---------------------------------------------------------------- bounds
\* Initializer attempts that allocate platform objects.
MaxAttempts == 1
\* Release calls counted per platform object (the count saturates here).
MaxReleases == 2
\* Animation-frame handles (handles are opaque, a dead one is reused).
MaxHandles == 2
\* Media elements of the page.
MaxElements == 1
\* the highest bin that is the loud one of a one-bin buffer
MaxPeakBin == 15

\* ------------------------------------------------------------- constants
\* A null reference (fields hold NULL or an object id >= 0).
NULL == -1
\* The caller-owned analyser and context given to connectExternalAnalyser.
EXT == 0
\* States of a platform object: not created, live, created but not
\* started (feature extractor only); k >= 1: released (disconnected,
\* closed, stopped) k times.
Absent == -1
Live == 0
Created == -2

\* _pitchConfig defaults; clarity is counted in hundredths.
ClarityThreshold == 90
MinFrequency == 20
MaxFrequency == 4000

\* The analysis tap of the model: frequencyBinCount, fftSize and the
\* context's sample rate.  Byte magnitudes are 0 or 255.  With these the
\* quotients and roots taken by the feature computations are exact; on
\* other buffers frequencies and features are rounded down to integers.
BinCount == 3
FftSize == 6
SampleRate == 44100

Ids == 0..MaxAttempts
Attempts == 1..MaxAttempts
Elements == 1..MaxElements
Handles == 1..MaxHandles

\* Frequency buffers the analyser delivers in a tick.
ZeroBuffer == [i \in 1..BinCount |-> 0]
FullBuffer == [i \in 1..BinCount |-> 255]
\* frequencyData / timeDomainData before the first tick (null).
NullBuffer == << >>

\* PitchDetector.findPitch throws, or returns (frequency in Hz, clarity in
\* hundredths).
\* What one tick reads from the platform: the analyser's frequency buffer
\* and the estimator's outcome on its time-domain samples.
TickInputs ==
    { [buf |-> ZeroBuffer, est |-> [throws |-> TRUE, pitch |-> 0, clarity |-> 0]],
      [buf |-> FullBuffer, est |-> [throws |-> FALSE, pitch |-> 440, clarity |-> 95]] }

\* Arguments of the feature-extractor callback (null, or a feature set).
MeydaFeatures ==
    { [truthy |-> FALSE, energy |-> 0, spectralCentroid |-> 0,
       perceptualSpread |-> 0, perceptualSharpness |-> 0,
       spectralFlatness |-> 0, spectralKurtosis |-> 0],
      [truthy |-> TRUE, energy |-> 2, spectralCentroid |-> 100,
       perceptualSpread |-> 1, perceptualSharpness |-> 1,
       spectralFlatness |-> 1, spectralKurtosis |-> 5] }

\* Values of the constructor option smoothingFactor used by the model.
SmoothingFactors == {0, 1}

\* Steps inside an initializer's try block that the platform can fail.
MicFailPoints == {"none", "context", "meydaCreate", "meydaStart"}
ElementFailPoints == {"none", "context", "meydaCreate", "meydaStart", "poll"}

VARIABLES
    this,        \* the AudioSource instance: its fields
    objs,        \* platform objects: objs[id][kind] is a state (see Live)
    rafQueue,    \* handles of the pending animation-frame callbacks (poll)
    tapped,      \* media elements that have a MediaElementSource
    micPending,  \* initMicrophone() calls awaiting getUserMedia
    nextId,      \* next attempt id
    last,        \* the last call of the instance's API (or the resumption
                 \* of an initMicrophone() call) and how it ended
    activated,   \* <<strategy, id>> of the initializers that completed
                 \* successfully since the last destroy()
    quiesced,    \* destroy() has returned and no initializer was called since
    suspended,   \* the audio contexts whose state is 'suspended'
    held,        \* what the caller's last getAudioData() call returned
    viz,         \* the Visualizer that wraps the instance (visualizers/index.js)
    legacy       \* the module-level mirror of the instance (the legacy exports)

vars == <<this, objs, rafQueue, tapped, micPending, nextId, last, activated, quiesced,
          suspended, held, viz, legacy>>

\* The state outside the AudioSource's own operations: what its callers
\* and the platform hold.
around == <<suspended, held, viz, legacy>>

\* ------------------------------------------------------------ constructor
DefaultAudioData ==
    [ energy |-> 0, roughness |-> 0, warmth |-> 0, richness |-> 0,
      sharpness |-> 0, kurtosis |-> 0, pitch |-> "null", octave |-> NULL,
      dominantFrequency |-> 0, dominantBin |-> 0, bassFrequency |-> 0,
      bassEnergy |-> 0, frequencyData |-> NullBuffer, timeDomainData |-> NULL ]

NewAudioSource(factor) ==
    [ audioContext |-> NULL, analyser |-> NULL, meydaAnalyser |-> NULL,
      pitchDetector |-> NULL, source |-> NULL, scriptProcessor |-> NULL,
      pollFrameId |-> NULL, isInitialized |-> FALSE, isExternal |-> FALSE,
      audioData |-> DefaultAudioData,
      smoothingFactor |-> factor,
      smoothedValues |-> [energy |-> 0, warmth |-> 0, richness |-> 0, sharpness |-> 0] ]

NoObject ==
    [ctx |-> Absent, an |-> Absent, src |-> Absent, sp |-> Absent,
     meyda |-> Absent, stream |-> Absent]

InitObjs ==
    [id \in Ids |-> IF id = EXT THEN [NoObject EXCEPT !.ctx = Live, !.an = Live]
                    ELSE NoObject]

NoOp == [op |-> "new", result |-> "ok", id |-> NULL, elem |-> 0, calls |-> 0]

\* The scalar fields of a snapshot (the others are buffers).
ScalarFields ==
    {"energy", "roughness", "warmth", "richness", "sharpness", "kurtosis", "pitch",
     "octave", "dominantFrequency", "dominantBin", "bassFrequency", "bassEnergy"}

Scalars(data) == [f \in ScalarFields |-> data[f]]

\* The caller has not called getAudioData() yet: it holds no object (and
\* no copied scalars).
NotHeld == [kind |-> "none", copyArg |-> FALSE, scalars |-> NULL, sharesBuffers |-> FALSE]

\* new Visualizer(container, options) with a container element: no preset
\* visualizer yet (visualizer, with its isRunning flag and its pending
\* animation frame), not initialized.  completed: an initializer has
\* returned normally since construction and since the last destroy().
\* call, outcome: the last call of the Visualizer's API and how it ended.
\* isDestroyed: the preset visualizer made last has been destroyed.
\* serial, instances: which preset visualizer is the last one made (the
\* bit flips at each construction), and how many are not destroyed.
\* drew: the last call invoked update() and render().
NewVisualizer ==
    [container |-> TRUE, audioSource |-> TRUE, presetKnown |-> TRUE,
     isInitialized |-> FALSE,
     visualizer |-> FALSE, isRunning |-> FALSE, frame |-> FALSE,
     isDestroyed |-> FALSE, serial |-> 0, instances |-> 0, drew |-> FALSE,
     completed |-> FALSE, call |-> "new", outcome |-> "ok"]

\* The exports of the module before initLegacyMicrophone() and after
\* destroyLegacyAudio(): the mirrored scalars, the mirrored context and
\* analyser, the mirrored frequency buffer and its length.
DefaultMirror ==
    [ energy |-> 0, roughness |-> 0, warmth |-> 0, richness |-> 0,
      sharpness |-> 0, kurtosis |-> 0, realpitch |-> "null", realoctave |-> NULL,
      audioContext |-> NULL, analyser |-> NULL, dataArray |-> NullBuffer,
      bufferLength |-> 0 ]

\* The module-level state of the legacy API when the module is loaded:
\* legacyAudioSource is null, legacyInitialized is false, no mirroring
\* frame is requested.  awaiting: the initLegacyMicrophone() call that
\* awaits the instance's initMicrophone(); quiet: destroyLegacyAudio()
\* has returned and initLegacyMicrophone() was not called since.
NewLegacy ==
    [ legacyAudioSource |-> FALSE, legacyInitialized |-> FALSE,
      legacyPollFrameId |-> FALSE, exports |-> DefaultMirror,
      awaiting |-> FALSE, quiet |-> FALSE, call |-> "load", outcome |-> "ok" ]

Init ==
    /\ this \in {NewAudioSource(f) : f \in SmoothingFactors}
    /\ objs = InitObjs
    /\ rafQueue = {}
    /\ tapped = {}
    /\ micPending = {}
    /\ nextId = 1
    /\ last = NoOp
    /\ activated = {}
    /\ quiesced = FALSE
    /\ suspended = {}
    /\ held = NotHeld
    /\ viz = NewVisualizer
    /\ legacy = NewLegacy

\* The state an operation works on: the instance, the platform objects, the
\* animation-frame queue, and the release calls it has made so far
\* (cancelAnimationFrame, stop, disconnect, close).
World == [this |-> this, objs |-> objs, raf |-> rafQueue, calls |-> 0]

Commit(w) ==
    /\ this' = w.this
    /\ objs' = w.objs
    /\ rafQueue' = w.raf

Bump(c) == IF c < 0 THEN 1 ELSE IF c < MaxReleases THEN c + 1 ELSE MaxReleases

\* One disconnect() / close() / stop() call on a platform object.
ReleaseObj(w, id, kind) ==
    [w EXCEPT !.objs[id][kind] = Bump(@), !.calls = @ + 1]

\* ------------------------------------------------------------------ ticks
Min(a, b) == IF a < b THEN a ELSE b

CeilDiv(a, b) == (a + b - 1) \div b

RECURSIVE ScanBassKeepsLast(_, _, _, _, _)
\* The loop with >= in place of >: among equal bins the last one wins.
ScanBassKeepsLast(freqData, i, hi, maxVal, peakBin) ==
    IF i > hi THEN [maxVal |-> maxVal, peakBin |-> peakBin]
    ELSE IF freqData[i + 1] >= maxVal
         THEN ScanBassKeepsLast(freqData, i + 1, hi, freqData[i + 1], i)
         ELSE ScanBassKeepsLast(freqData, i + 1, hi, maxVal, peakBin)

RECURSIVE ScanBass(_, _, _, _, _)
\* The loop of _updateDominantFrequency over the bins i..hi (0-based):
\* a bin replaces the peak only when strictly louder.
ScanBass(freqData, i, hi, maxVal, peakBin) ==
    IF i > hi THEN [maxVal |-> maxVal, peakBin |-> peakBin]
    ELSE IF freqData[i + 1] > maxVal
         THEN ScanBass(freqData, i + 1, hi, freqData[i + 1], i)
         ELSE ScanBass(freqData, i + 1, hi, maxVal, peakBin)

\* _updateDominantFrequency: the peak of the 20-120 Hz band.
UpdateDominantFrequency(t, sampleRate) ==
    IF t.audioData.frequencyData = NullBuffer \/ t.audioContext = NULL THEN t
    ELSE
      LET freqData == t.audioData.frequencyData
          binCount == Len(freqData)
          \* binSize = (sampleRate / 2) / binCount
          minBassBin == (20 * 2 * binCount) \div sampleRate
          maxBassBin == CeilDiv(120 * 2 * binCount, sampleRate)
          scan == ScanBass(freqData, minBassBin, Min(maxBassBin, binCount - 1), 0, minBassBin)
          peakFreq == (scan.peakBin * sampleRate) \div (2 * binCount)
          hue == ((peakFreq - 20) * 360) \div (120 - 20)
      IN [t EXCEPT !.audioData.dominantFrequency = peakFreq,
                   !.audioData.dominantBin = scan.peakBin,
                   !.audioData.bassFrequency = hue,
                   !.audioData.bassEnergy = scan.maxVal \div 255]

\* _updateFrequencyData: (re)allocate the buffers on a length mismatch, read
\* the analyser into them, then locate the dominant frequency.
UpdateFrequencyData(t, buf, sampleRate) ==
    IF t.analyser = NULL THEN t
    ELSE UpdateDominantFrequency(
           [t EXCEPT !.audioData.frequencyData = buf,
                     !.audioData.timeDomainData =
                        IF t.audioData.frequencyData = NullBuffer
                           \/ Len(t.audioData.frequencyData) # Len(buf)
                        THEN FftSize ELSE @],
           sampleRate)

\* FrequencyMap.noteFromFreq on the frequencies the estimator reports here.
NoteFromFreq(f) ==
    CASE f = 440 -> [name |-> "A", octave |-> 4]
      [] f = 262 -> [name |-> "C", octave |-> 4]

\* _updatePitch up to the read of the time-domain samples: the pitch
\* detector is created on first use.
EnsurePitchDetector(t) ==
    IF t.analyser = NULL \/ t.audioContext = NULL THEN t
    ELSE IF t.pitchDetector = NULL THEN [t EXCEPT !.pitchDetector = Live] ELSE t

\* _updatePitch without the reset in its catch block: a throwing estimator
\* leaves pitch and octave as they were.
UpdatePitchKeepsOnThrow(t, est) ==
    IF t.analyser = NULL \/ t.audioContext = NULL THEN t
    ELSE
      LET d == EnsurePitchDetector(t)
      IN IF est.throws THEN d
         ELSE IF /\ est.clarity > ClarityThreshold
                 /\ est.pitch > MinFrequency
                 /\ est.pitch < MaxFrequency
              THEN [d EXCEPT !.audioData.pitch = NoteFromFreq(est.pitch).name,
                             !.audioData.octave = NoteFromFreq(est.pitch).octave]
              ELSE [d EXCEPT !.audioData.pitch = "null", !.audioData.octave = NULL]

\* _updatePitch: the clarity and frequency-range gate; a throwing estimator
\* is caught and reported as (null, null).
UpdatePitch(t, est) ==
    IF t.analyser = NULL \/ t.audioContext = NULL THEN t
    ELSE
      LET d == EnsurePitchDetector(t)
      IN IF est.throws
         THEN [d EXCEPT !.audioData.pitch = "null", !.audioData.octave = NULL]
         ELSE IF /\ est.clarity > ClarityThreshold
                 /\ est.pitch > MinFrequency
                 /\ est.pitch < MaxFrequency
              THEN [d EXCEPT !.audioData.pitch = NoteFromFreq(est.pitch).name,
                             !.audioData.octave = NoteFromFreq(est.pitch).octave]
              ELSE [d EXCEPT !.audioData.pitch = "null", !.audioData.octave = NULL]

\* _smooth
Smooth(t, oldValue, newValue) ==
    oldValue * t.smoothingFactor + newValue * (1 - t.smoothingFactor)

\* _updateFeatures: the feature-extractor callback's features, smoothed.
UpdateFeatures(t, features) ==
    LET sv == [energy |-> Smooth(t, t.smoothedValues.energy, features.energy),
               warmth |-> Smooth(t, t.smoothedValues.warmth, features.spectralCentroid),
               richness |-> Smooth(t, t.smoothedValues.richness, features.perceptualSpread),
               sharpness |-> Smooth(t, t.smoothedValues.sharpness, features.perceptualSharpness)]
    IN [t EXCEPT !.smoothedValues = sv,
                 !.audioData.energy = sv.energy,
                 !.audioData.roughness = features.spectralFlatness,
                 !.audioData.warmth = sv.warmth,
                 !.audioData.richness = sv.richness,
                 !.audioData.sharpness = sv.sharpness,
                 !.audioData.kurtosis = features.spectralKurtosis]

RECURSIVE SumOver(_, _, _)
\* sum of term[i] for the 0-based bins i..len-1 (the loops of the feature
\* computations; the range is summed by halves)
SumOver(term, i, len) ==
    IF i >= len THEN 0
    ELSE IF i + 1 = len THEN term[i + 1]
    ELSE SumOver(term, i, (i + len) \div 2) + SumOver(term, (i + len) \div 2, len)

RECURSIVE ProductOver(_, _, _)
ProductOver(term, i, len) ==
    IF i >= len THEN 1
    ELSE IF i + 1 = len THEN term[i + 1]
    ELSE ProductOver(term, i, (i + len) \div 2) * ProductOver(term, (i + len) \div 2, len)

\* a * b, or some number above cap when that is above cap
TimesUpTo(a, b, cap) == IF a > cap \div b THEN cap + 1 ELSE a * b

RECURSIVE Power(_, _, _)
\* b to the e (b >= 1), or some number above cap when that is above cap
Power(b, e, cap) ==
    IF e = 0 THEN 1
    ELSE IF e % 2 = 1 THEN TimesUpTo(Power(b, e - 1, cap), b, cap)
    ELSE LET half == Power(b, e \div 2, cap) IN TimesUpTo(half, half, cap)

RECURSIVE ISqrt(_, _, _)
\* Math.sqrt of n, rounded down, for a root in lo..hi (found by halving)
ISqrt(n, lo, hi) ==
    IF lo >= hi THEN lo
    ELSE LET mid == (lo + hi + 1) \div 2
         IN IF mid * mid <= n THEN ISqrt(n, mid, hi) ELSE ISqrt(n, lo, mid - 1)

RECURSIVE IRoot(_, _, _, _)
\* the len-th root of p, rounded down, for a root in lo..hi (lo >= 1)
IRoot(p, len, lo, hi) ==
    IF lo >= hi THEN lo
    ELSE LET mid == (lo + hi + 1) \div 2
         IN IF Power(mid, len, p) <= p THEN IRoot(p, len, mid, hi)
            ELSE IRoot(p, len, lo, mid - 1)

\* The throw of _calculateFeaturesFromFrequencyData: audioContext.sampleRate
\* is read (only when some bin is non-zero) and audioContext is null.
FallbackThrows(t) ==
    /\ t.audioData.frequencyData # NullBuffer
    /\ SumOver(t.audioData.frequencyData, 0, Len(t.audioData.frequencyData)) > 0
    /\ t.audioContext = NULL

\* _calculateFeaturesFromFrequencyData: energy, centroid and flatness of the
\* frequency buffer; energy and warmth are smoothed, the rest is not.
CalculateFeaturesFromFrequencyData(t, sampleRate) ==
    IF t.audioData.frequencyData = NullBuffer THEN t
    ELSE
      LET freqData == t.audioData.frequencyData
          len == Len(freqData)
          sum == SumOver([i \in 1..len |-> freqData[i] * freqData[i]], 0, len)
          energy == ISqrt(sum \div len, 0, 255) \div 255
          weightedSum == SumOver([i \in 1..len |-> (i - 1) * freqData[i]], 0, len)
          totalWeight == SumOver(freqData, 0, len)
          \* (weightedSum / totalWeight) * (sampleRate / 2 / len)
          centroid == IF totalWeight > 0
                      THEN ((weightedSum \div totalWeight) * sampleRate
                            + ((weightedSum % totalWeight) * sampleRate) \div totalWeight)
                           \div (2 * len)
                      ELSE 0
          floored == [i \in 1..len |-> IF freqData[i] > 1 THEN freqData[i] ELSE 1]
          \* exp(mean(log v)) is the len-th root of the product
          geometricMean == IRoot(ProductOver(floored, 0, len), len, 1, 255)
          arithmeticSum == SumOver(floored, 0, len)
          flatness == IF arithmeticSum > 0
                      THEN (geometricMean * len) \div arithmeticSum
                      ELSE 0
          e == Smooth(t, t.smoothedValues.energy, energy)
          w == Smooth(t, t.smoothedValues.warmth, Min(centroid, 360))
      IN [t EXCEPT !.smoothedValues.energy = e,
                   !.smoothedValues.warmth = w,
                   !.audioData.energy = e,
                   !.audioData.roughness = flatness,
                   !.audioData.warmth = w,
                   !.audioData.richness = Min(energy * 2, 1),
                   !.audioData.sharpness = Min(centroid \div 1000, 1)]

\* -------------------------------------------------------------- lifecycle
\* The guard left out: a call on an initialized instance goes on.
GuardMissing(t) == FALSE

\* The guard at the head of the three initializers.
AlreadyInitialized(t) == t.isInitialized

\* _cleanupPartialInit: release and null whatever the fields refer to.
CleanupPartialInit(w) ==
    LET w1 == IF w.this.scriptProcessor # NULL
              THEN [ReleaseObj(w, w.this.scriptProcessor, "sp") EXCEPT !.this.scriptProcessor = NULL]
              ELSE w
        w2 == IF w1.this.source # NULL
              THEN [ReleaseObj(w1, w1.this.source, "src") EXCEPT !.this.source = NULL]
              ELSE w1
        w3 == IF w2.this.analyser # NULL
              THEN [ReleaseObj(w2, w2.this.analyser, "an") EXCEPT !.this.analyser = NULL]
              ELSE w2
        w4 == IF w3.this.audioContext # NULL
              THEN [ReleaseObj(w3, w3.this.audioContext, "ctx") EXCEPT !.this.audioContext = NULL]
              ELSE w3
    IN w4

\* _initMeyda for attempt n: stop the current feature extractor, create
\* the new one, start it.  fail names the step the platform fails, if any.
InitMeyda(w, n, fail) ==
    LET w1 == IF w.this.meydaAnalyser # NULL
              THEN ReleaseObj(w, w.this.meydaAnalyser, "meyda")
              ELSE w
        w2 == [w1 EXCEPT !.this.meydaAnalyser = n, !.objs[n].meyda = Created]
        w3 == [w2 EXCEPT !.objs[n].meyda = Live]
    IN IF fail = "meydaCreate" THEN [w |-> w1, threw |-> TRUE]
       ELSE IF fail = "meydaStart" THEN [w |-> w2, threw |-> TRUE]
       ELSE [w |-> w3, threw |-> FALSE]

\* requestAnimationFrame: a handle that is not pending.
NewHandle(raf) == CHOOSE h \in Handles : h \notin raf /\ \A g \in Handles : g \notin raf => h <= g

\* One iteration of the poll closure of _startPolling.  threw: the
\* iteration ended in an exception (nothing is rescheduled then).
PollBody(w, buf, est, floatReadThrows) ==
    IF ~w.this.isInitialized
    THEN [w |-> [w EXCEPT !.this.pollFrameId = NULL], threw |-> FALSE]
    ELSE
      LET t1 == UpdateFrequencyData(w.this, buf, SampleRate)
          t2 == UpdatePitch(t1, est)
          fallback == t2.isExternal /\ t2.meydaAnalyser = NULL
          t3 == IF fallback THEN CalculateFeaturesFromFrequencyData(t2, SampleRate) ELSE t2
          h == NewHandle(w.raf)
      IN IF floatReadThrows
         THEN [w |-> [w EXCEPT !.this = EnsurePitchDetector(t1)], threw |-> TRUE]
         ELSE IF fallback /\ FallbackThrows(t2)
         THEN [w |-> [w EXCEPT !.this = t2], threw |-> TRUE]
         ELSE [w |-> [w EXCEPT !.this = [t3 EXCEPT !.pollFrameId = h],
                               !.raf = @ \cup {h}],
               threw |-> FALSE]

\* The two checks in the other order.
ValidateContextFirst(nodeOk, ctxOk) ==
    IF ~ctxOk THEN "threwContext"
    ELSE IF ~nodeOk THEN "threwNode"
    ELSE "ok"

\* The validation of connectExternalAnalyser: the analyser is checked
\* first, the context only when the analyser passed.
ValidateExternal(nodeOk, ctxOk) ==
    IF ~nodeOk THEN "threwNode"
    ELSE IF ~ctxOk THEN "threwContext"
    ELSE "ok"

\* A platform that lets an element be tapped twice.
ElementNeverHasSource(e, tappedElems) == FALSE

\* createMediaElementSource throws for an element that has a source.
ElementHasSource(e, tappedElems) == e \in tappedElems

\* destroy() that forgets to null audioContext.
DestroyKeepsContext(t) ==
    [t EXCEPT !.source = NULL, !.analyser = NULL, !.pitchDetector = NULL]

\* The references destroy() leaves in the fields it nulls at its end.
DestroyedRefs(t) ==
    [t EXCEPT !.source = NULL, !.analyser = NULL, !.audioContext = NULL,
              !.pitchDetector = NULL]

\* destroy()
DestroyBody(w) ==
    LET w1 == IF w.this.pollFrameId # NULL
              THEN [w EXCEPT !.raf = @ \ {w.this.pollFrameId},
                             !.calls = @ + 1,
                             !.this.pollFrameId = NULL]
              ELSE w
        w2 == [w1 EXCEPT !.this.isInitialized = FALSE]
        w3 == IF w2.this.meydaAnalyser # NULL
              THEN [ReleaseObj(w2, w2.this.meydaAnalyser, "meyda") EXCEPT !.this.meydaAnalyser = NULL]
              ELSE w2
        w4 == IF w3.this.scriptProcessor # NULL
              THEN [ReleaseObj(w3, w3.this.scriptProcessor, "sp") EXCEPT !.this.scriptProcessor = NULL]
              ELSE w3
        w5 == IF w4.this.source # NULL /\ ~w4.this.isExternal
              THEN ReleaseObj(w4, w4.this.source, "src") ELSE w4
        w6 == IF w5.this.analyser # NULL /\ ~w5.this.isExternal
              THEN ReleaseObj(w5, w5.this.analyser, "an") ELSE w5
        w7 == IF w6.this.audioContext # NULL /\ ~w6.this.isExternal
              THEN ReleaseObj(w6, w6.this.audioContext, "ctx") ELSE w6
    IN [w7 EXCEPT !.this = DestroyedRefs(@)]

Op(op, result, id, elem, calls) ==
    [op |-> op, result |-> result, id |-> id, elem |-> elem, calls |-> calls]

\* AudioContext.state
ContextState(id) ==
    IF objs[id].ctx # Live THEN "closed"
    ELSE IF id \in suspended THEN "suspended"
    ELSE "running"

\* ---------------------------------------------------------------- actions
\* initMicrophone() up to its await: the guard, the capability check, the
\* stream request.
InitMicrophoneStep(supported) ==
    /\ quiesced' = FALSE
    /\ UNCHANGED <<this, objs, rafQueue, tapped, activated>>
    /\ IF AlreadyInitialized(this)
       THEN /\ last' = Op("initMicrophone", "noop", NULL, 0, 0)
            /\ UNCHANGED <<micPending, nextId>>
       ELSE IF ~supported
       THEN /\ last' = Op("initMicrophone", "threwArg", NULL, 0, 0)
            /\ UNCHANGED <<micPending, nextId>>
       ELSE /\ nextId <= MaxAttempts
            /\ micPending' = micPending \cup {nextId}
            /\ nextId' = nextId + 1
            /\ last' = Op("initMicrophone", "pending", nextId, 0, 0)

\* getUserMedia rejects: the catch block of initMicrophone.  The attempt
\* has allocated no platform object: its id is free again when it is the
\* last one handed out.
MicStreamRejectedStep(n) ==
    /\ n \in micPending
    /\ micPending' = micPending \ {n}
    /\ nextId' = IF n + 1 = nextId THEN n ELSE nextId
    /\ LET w == CleanupPartialInit(World)
       IN /\ Commit(w)
          /\ last' = Op("micResume", "threw", n, 0, w.calls)
    /\ UNCHANGED <<tapped, activated, quiesced>>

\* getUserMedia resolves: the rest of initMicrophone's try block.
MicStreamGrantedStep(n, fail) ==
    /\ n \in micPending
    /\ micPending' = micPending \ {n}
    /\ LET w0 == [World EXCEPT !.objs[n].stream = Live]
           w1 == [w0 EXCEPT !.this.audioContext = n, !.objs[n].ctx = Live,
                            !.this.analyser = n, !.objs[n].an = Live,
                            !.this.source = n, !.objs[n].src = Live,
                            !.this.scriptProcessor = n, !.objs[n].sp = Live]
           m == InitMeyda(w1, n, fail)
           ok == [m.w EXCEPT !.this.isInitialized = TRUE, !.this.isExternal = FALSE]
           w == IF fail = "context" THEN CleanupPartialInit(w0)
                ELSE IF m.threw THEN CleanupPartialInit(m.w)
                ELSE ok
           threw == fail = "context" \/ m.threw
       IN /\ Commit(w)
          /\ last' = Op("micResume", IF threw THEN "threw" ELSE "ok", n, 0, w.calls)
          /\ activated' = IF threw THEN activated ELSE activated \cup {<<"mic", n>>}
    /\ UNCHANGED <<tapped, nextId, quiesced>>

\* connectExternalAnalyser(analyserNode, audioContext) with the caller's
\* analyser and context, or with arguments of another type.
ConnectExternalAnalyserStep(nodeOk, ctxOk, in) ==
    /\ quiesced' = FALSE
    /\ UNCHANGED <<tapped, micPending, nextId>>
    /\ IF AlreadyInitialized(this)
       THEN /\ last' = Op("connectExternalAnalyser", "noop", NULL, 0, 0)
            /\ UNCHANGED <<this, objs, rafQueue, activated>>
       ELSE IF ValidateExternal(nodeOk, ctxOk) # "ok"
       THEN /\ last' = Op("connectExternalAnalyser", ValidateExternal(nodeOk, ctxOk), NULL, 0, 0)
            /\ UNCHANGED <<this, objs, rafQueue, activated>>
       ELSE LET w1 == [World EXCEPT !.this.audioContext = EXT,
                                    !.this.analyser = EXT,
                                    !.this.isInitialized = TRUE,
                                    !.this.isExternal = TRUE,
                                    !.this.pitchDetector = Live]
                p == PollBody(w1, in.buf, in.est, FALSE)
            IN /\ Commit(p.w)
               /\ last' = Op("connectExternalAnalyser",
                             IF p.threw THEN "threw" ELSE "ok", EXT, 0, p.w.calls)
               /\ activated' = IF p.threw THEN activated
                                ELSE activated \cup {<<"external", EXT>>}

\* connectAudioElement(audioElement); e = 0 is an argument that is no
\* HTMLAudioElement.  The function has no await: it runs in one step.
ConnectAudioElementStep(e, fail, in) ==
    /\ quiesced' = FALSE
    /\ UNCHANGED micPending
    /\ IF AlreadyInitialized(this)
       THEN /\ last' = Op("connectAudioElement", "noop", NULL, e, 0)
            /\ UNCHANGED <<this, objs, rafQueue, tapped, nextId, activated>>
       ELSE IF e = 0
       THEN /\ last' = Op("connectAudioElement", "threwArg", NULL, e, 0)
            /\ UNCHANGED <<this, objs, rafQueue, tapped, nextId, activated>>
       ELSE /\ nextId <= MaxAttempts
            /\ LET n == nextId
                   w1 == [World EXCEPT !.this.audioContext = n, !.objs[n].ctx = Live,
                                       !.this.analyser = n, !.objs[n].an = Live]
                   w2 == [w1 EXCEPT !.this.source = n, !.objs[n].src = Live]
                   m == InitMeyda(w2, n, fail)
                   w3 == [m.w EXCEPT !.this.isInitialized = TRUE, !.this.isExternal = TRUE]
                   p == PollBody(w3, in.buf, in.est, fail = "poll")
                   stage == IF fail = "context" THEN "context"
                            ELSE IF ElementHasSource(e, tapped) THEN "source"
                            ELSE IF m.threw THEN "meyda"
                            ELSE IF p.threw THEN "poll"
                            ELSE "ok"
                   w == CASE stage = "context" -> CleanupPartialInit(World)
                          [] stage = "source" -> CleanupPartialInit(w1)
                          [] stage = "meyda" -> CleanupPartialInit(m.w)
                          [] stage = "poll" -> CleanupPartialInit(p.w)
                          [] stage = "ok" -> p.w
               IN /\ Commit(w)
                  /\ tapped' = IF stage \in {"meyda", "poll", "ok"} THEN tapped \cup {e} ELSE tapped
                  /\ nextId' = IF stage = "context" THEN nextId ELSE nextId + 1
                  /\ last' = Op("connectAudioElement",
                                IF stage = "ok" THEN "ok" ELSE "threw",
                                IF stage = "context" THEN NULL ELSE n, e, w.calls)
                  /\ activated' = IF stage = "ok" THEN activated \cup {<<"element", n>>}
                                  ELSE activated

\* Another AudioSource of the page taps element e (its connectAudioElement
\* reached createMediaElementSource).
OtherSourceTaps(e) ==
    /\ e \notin tapped
    /\ tapped' = tapped \cup {e}
    /\ UNCHANGED <<this, objs, rafQueue, micPending, nextId, last, activated, quiesced>>
    /\ UNCHANGED around

\* The animation frame with handle h fires: one poll iteration.
PollFire(h, in) ==
    /\ h \in rafQueue
    /\ LET p == PollBody([World EXCEPT !.raf = @ \ {h}], in.buf, in.est, FALSE)
       IN Commit(p.w)
    /\ UNCHANGED <<last, tapped, micPending, nextId, activated, quiesced>>
    /\ UNCHANGED around

\* The onaudioprocess callback of script processor n fires.
AudioProcess(n, in) ==
    /\ objs[n].sp = Live
    /\ ContextState(n) = "running"
    /\ this' = UpdatePitch(UpdateFrequencyData(this, in.buf, SampleRate), in.est)
    /\ UNCHANGED <<last, objs, rafQueue, tapped, micPending, nextId, activated, quiesced>>
    /\ UNCHANGED around

\* The callback of the running feature extractor n fires.
MeydaCallback(n, features) ==
    /\ objs[n].meyda = Live
    /\ ContextState(n) = "running"
    /\ this' = IF features.truthy THEN UpdateFeatures(this, features) ELSE this
    /\ UNCHANGED <<last, objs, rafQueue, tapped, micPending, nextId, activated, quiesced>>
    /\ UNCHANGED around

\* destroy()
DestroyStep ==
    /\ LET w == DestroyBody(World)
       IN /\ Commit(w)
          /\ last' = Op("destroy", IF last.op = "destroy" THEN "again" ELSE "ok",
                        NULL, 0, w.calls)
    /\ activated' = {}
    /\ quiesced' = TRUE
    /\ UNCHANGED <<tapped, micPending, nextId>>

\* The instance used on its own: its callers hold nothing and no Visualizer
\* acts on it.
InitMicrophone(supported) == InitMicrophoneStep(supported) /\ UNCHANGED around

MicStreamRejected(n) == MicStreamRejectedStep(n) /\ UNCHANGED around

MicStreamGranted(n, fail) == MicStreamGrantedStep(n, fail) /\ UNCHANGED around

ConnectExternalAnalyser(nodeOk, ctxOk, in) ==
    ConnectExternalAnalyserStep(nodeOk, ctxOk, in) /\ UNCHANGED around

ConnectAudioElement(e, fail, in) == ConnectAudioElementStep(e, fail, in) /\ UNCHANGED around

Destroy == DestroyStep /\ UNCHANGED around

Next ==
    \/ \E supported \in BOOLEAN : InitMicrophone(supported)
    \/ \E n \in Attempts : MicStreamRejected(n)
    \/ \E n \in Attempts, fail \in MicFailPoints : MicStreamGranted(n, fail)
    \/ \E nodeOk \in BOOLEAN, ctxOk \in BOOLEAN, in \in TickInputs :
          ConnectExternalAnalyser(nodeOk, ctxOk, in)
    \/ \E e \in Elements \cup {0}, fail \in ElementFailPoints, in \in TickInputs :
          ConnectAudioElement(e, fail, in)
    \/ \E e \in Elements : OtherSourceTaps(e)
    \/ \E h \in Handles, in \in TickInputs : PollFire(h, in)
    \/ \E n \in Attempts, in \in TickInputs : AudioProcess(n, in)
    \/ \E n \in Attempts, features \in MeydaFeatures : MeydaCallback(n, features)
    \/ Destroy

Spec == Init /\ [][Next]_vars

\* ------------------------------------------------------- getAudioData
\* getAudioData that hands out the live snapshot whatever its argument.
GetAudioDataNeverCopies(t, copy) ==
    [kind |-> "live", scalars |-> NULL, sharesBuffers |-> TRUE]

\* getAudioData(copy): the live snapshot object itself, or a new object
\* with the snapshot's scalar values and its buffer references (null
\* before the first tick has allocated the buffers).
GetAudioDataResult(t, copy) ==
    IF copy
    THEN [kind |-> "copy", scalars |-> Scalars(t.audioData),
          sharesBuffers |-> t.audioData.frequencyData # NullBuffer]
    ELSE [kind |-> "live", scalars |-> NULL, sharesBuffers |-> TRUE]

\* The caller calls getAudioData(copy) and keeps what it returns.
GetAudioData(copy) ==
    /\ held' = [kind |-> GetAudioDataResult(this, copy).kind,
                copyArg |-> copy,
                scalars |-> GetAudioDataResult(this, copy).scalars,
                sharesBuffers |-> GetAudioDataResult(this, copy).sharesBuffers]
    /\ last' = Op("getAudioData", "ok", NULL, 0, 0)
    /\ UNCHANGED <<this, objs, rafQueue, tapped, micPending, nextId, activated,
                   quiesced, suspended, viz, legacy>>

NextSnapshot ==
    \/ Next
    \/ \E copy \in BOOLEAN : GetAudioData(copy)

SpecSnapshot == Init /\ [][NextSnapshot]_vars

\* ---------------------------------------------------------- Visualizer
\* The start of a call on the Visualizer or on its preset visualizer: it
\* has not invoked update() and render() yet.
Called(v) == [v EXCEPT !.drew = FALSE]

\* BaseVisualizer.destroy() that leaves the loop alone (no stop()).
BaseDestroyKeepsLoop(v) ==
    IF v.isDestroyed THEN v
    ELSE [v EXCEPT !.isDestroyed = TRUE, !.instances = @ - 1]

\* BaseVisualizer.destroy() of the preset visualizer: a no-op on a
\* destroyed one; otherwise it marks it destroyed and stops it (stop()
\* clears isRunning and cancels the pending animation frame).
BaseDestroy(v) ==
    IF v.isDestroyed THEN v
    ELSE [v EXCEPT !.isDestroyed = TRUE, !.isRunning = FALSE, !.frame = FALSE,
                   !.instances = @ - 1]

\* BaseVisualizer.start(): nothing on a running or destroyed visualizer;
\* otherwise isRunning is set and _animate() runs the first frame (update,
\* render) and requests the next one.
BaseStart(v) ==
    IF v.isRunning \/ v.isDestroyed THEN v
    ELSE [v EXCEPT !.isRunning = TRUE, !.frame = TRUE, !.drew = TRUE]

\* BaseVisualizer.stop()
BaseStop(v) == [v EXCEPT !.isRunning = FALSE, !.frame = FALSE]

\* _animate as the animation-frame callback: it gives up on a stopped or
\* destroyed visualizer; otherwise update, render, request the next frame.
BaseAnimate(v) ==
    IF ~v.isRunning \/ v.isDestroyed THEN [v EXCEPT !.frame = FALSE]
    ELSE [v EXCEPT !.frame = TRUE, !.drew = TRUE]

\* The Visualizer drops the reference without destroying the preset
\* visualizer.
DropVisualizerUndestroyed(v) ==
    IF v.visualizer THEN [v EXCEPT !.visualizer = FALSE] ELSE v

\* The Visualizer destroys its preset visualizer and drops the reference
\* (in _createVisualizer and in destroy()).
DropVisualizer(v) ==
    IF v.visualizer THEN [BaseDestroy(v) EXCEPT !.visualizer = FALSE] ELSE v

\* _createVisualizer that forgets the preset visualizer it has: the new
\* one replaces the reference, the old one is never destroyed.
CreateVisualizerKeepsOld(v, ctorFails) ==
    IF ~v.presetKnown \/ ~v.container \/ ctorFails
    THEN [v |-> v, threw |-> TRUE]
    ELSE [v |-> [v EXCEPT !.visualizer = TRUE, !.isRunning = FALSE, !.frame = FALSE,
                          !.isDestroyed = FALSE, !.serial = 1 - @,
                          !.instances = Min(@ + 1, 2)],
          threw |-> FALSE]

\* _createVisualizer: destroy the current preset visualizer, look the
\* preset up, construct the new one (the constructor throws without a
\* container, or when the platform fails it: ctorFails).
CreateVisualizer(v, ctorFails) ==
    LET v1 == DropVisualizer(v)
    IN IF ~v1.presetKnown \/ ~v1.container \/ ctorFails
       THEN [v |-> v1, threw |-> TRUE]
       ELSE [v |-> [v1 EXCEPT !.visualizer = TRUE, !.isRunning = FALSE, !.frame = FALSE,
                              !.isDestroyed = FALSE, !.serial = 1 - @,
                              !.instances = @ + 1],
             threw |-> FALSE]

\* The rest of an initWith...() call once the AudioSource's initializer
\* has ended with result: an exception propagates; otherwise the preset
\* visualizer is created and the Visualizer marked initialized.
AfterAudioInit(v, call, result, ctorFails) ==
    LET c == CreateVisualizer(v, ctorFails)
    IN IF result \notin {"ok", "noop"}
       THEN [v EXCEPT !.call = call, !.outcome = "threw"]
       ELSE IF c.threw
       THEN [c.v EXCEPT !.call = call, !.outcome = "threw"]
       ELSE [c.v EXCEPT !.isInitialized = TRUE, !.completed = TRUE,
                        !.call = call, !.outcome = "ok"]

\* The Visualizer's audioSource is null (after destroy()): the call throws
\* a TypeError before it reaches the AudioSource.
NoAudioSource(call) ==
    /\ ~viz.audioSource
    /\ viz' = [Called(viz) EXCEPT !.call = call, !.outcome = "threw"]
    /\ UNCHANGED <<this, objs, rafQueue, tapped, micPending, nextId, last, activated,
                   quiesced>>

\* initWithMicrophone() up to the await inside initMicrophone(); when the
\* AudioSource returns or throws at once, the call goes on at once.
InitWithMicrophone(supported, ctorFails) ==
    /\ UNCHANGED <<suspended, held, legacy>>
    /\ \/ NoAudioSource("initWithMicrophone")
       \/ /\ viz.audioSource
          /\ InitMicrophoneStep(supported)
          /\ viz' = IF last'.result = "pending"
                    THEN [Called(viz) EXCEPT !.call = "initWithMicrophone",
                                             !.outcome = "pending"]
                    ELSE AfterAudioInit(Called(viz), "initWithMicrophone", last'.result,
                                        ctorFails)

\* getUserMedia rejects: initMicrophone() rethrows into initWithMicrophone().
InitWithMicrophoneRejected(n) ==
    /\ UNCHANGED <<suspended, held, legacy>>
    /\ MicStreamRejectedStep(n)
    /\ viz' = AfterAudioInit(Called(viz), "initWithMicrophone", last'.result, FALSE)

\* getUserMedia resolves: the rest of initMicrophone(), then the rest of
\* initWithMicrophone().
InitWithMicrophoneGranted(n, fail, ctorFails) ==
    /\ UNCHANGED <<suspended, held, legacy>>
    /\ MicStreamGrantedStep(n, fail)
    /\ viz' = AfterAudioInit(Called(viz), "initWithMicrophone", last'.result, ctorFails)

\* initWithAnalyser(analyserNode, audioContext)
InitWithAnalyser(nodeOk, ctxOk, in, ctorFails) ==
    /\ UNCHANGED <<suspended, held, legacy>>
    /\ \/ NoAudioSource("initWithAnalyser")
       \/ /\ viz.audioSource
          /\ ConnectExternalAnalyserStep(nodeOk, ctxOk, in)
          /\ viz' = AfterAudioInit(Called(viz), "initWithAnalyser", last'.result, ctorFails)

\* initWithAudioElement(audioElement)
InitWithAudioElement(e, fail, in, ctorFails) ==
    /\ UNCHANGED <<suspended, held, legacy>>
    /\ \/ NoAudioSource("initWithAudioElement")
       \/ /\ viz.audioSource
          /\ ConnectAudioElementStep(e, fail, in)
          /\ viz' = AfterAudioInit(Called(viz), "initWithAudioElement", last'.result,
                                   ctorFails)

\* start() without its guard.
StartUnguarded(v) == FALSE

\* The guard of start(): it throws on a Visualizer that is not initialized.
StartThrows(v) == ~v.isInitialized

\* start(): the guard, then start() of the preset visualizer, if any.
Start ==
    /\ viz' = IF StartThrows(viz)
              THEN [Called(viz) EXCEPT !.call = "start", !.outcome = "threw"]
              ELSE IF viz.visualizer
              THEN [BaseStart(Called(viz)) EXCEPT !.call = "start", !.outcome = "ok"]
              ELSE [Called(viz) EXCEPT !.call = "start", !.outcome = "ok"]
    /\ UNCHANGED <<this, objs, rafQueue, tapped, micPending, nextId, last, activated,
                   quiesced, suspended, held, legacy>>

\* stop(): stop() of the preset visualizer, if any.
Stop ==
    /\ viz' = IF viz.visualizer
              THEN [BaseStop(Called(viz)) EXCEPT !.call = "stop", !.outcome = "ok"]
              ELSE [Called(viz) EXCEPT !.call = "stop", !.outcome = "ok"]
    /\ UNCHANGED <<this, objs, rafQueue, tapped, micPending, nextId, last, activated,
                   quiesced, suspended, held, legacy>>

\* destroy() of the Visualizer: the preset visualizer, then the
\* AudioSource, then the flags and references.
VisualizerDestroy ==
    /\ UNCHANGED <<suspended, held, legacy>>
    /\ viz' = [DropVisualizer(Called(viz)) EXCEPT
                 !.audioSource = FALSE, !.isInitialized = FALSE,
                 !.container = FALSE, !.completed = FALSE,
                 !.call = "destroy", !.outcome = "ok"]
    /\ IF viz.audioSource
       THEN DestroyStep
       ELSE UNCHANGED <<this, objs, rafQueue, tapped, micPending, nextId, last,
                        activated, quiesced>>

\* new Visualizer(container, {preset, audioOptions}) with a known or an
\* unknown preset name.
InitVisualizer ==
    /\ this \in {NewAudioSource(f) : f \in SmoothingFactors}
    /\ objs = InitObjs
    /\ rafQueue = {}
    /\ tapped = {}
    /\ micPending = {}
    /\ nextId = 1
    /\ last = NoOp
    /\ activated = {}
    /\ quiesced = FALSE
    /\ suspended = {}
    /\ held = NotHeld
    /\ viz \in {[NewVisualizer EXCEPT !.presetKnown = known] : known \in BOOLEAN}
    /\ legacy = NewLegacy

\* The instance used through the Visualizer that owns it.
NextVisualizer ==
    \/ \E supported \in BOOLEAN, ctorFails \in BOOLEAN :
          InitWithMicrophone(supported, ctorFails)
    \/ \E n \in Attempts : InitWithMicrophoneRejected(n)
    \/ \E n \in Attempts, fail \in MicFailPoints, ctorFails \in BOOLEAN :
          InitWithMicrophoneGranted(n, fail, ctorFails)
    \/ \E nodeOk \in BOOLEAN, ctxOk \in BOOLEAN, in \in TickInputs, ctorFails \in BOOLEAN :
          InitWithAnalyser(nodeOk, ctxOk, in, ctorFails)
    \/ \E e \in Elements \cup {0}, fail \in ElementFailPoints, in \in TickInputs,
          ctorFails \in BOOLEAN :
          InitWithAudioElement(e, fail, in, ctorFails)
    \/ Start
    \/ Stop
    \/ VisualizerDestroy
    \/ \E e \in Elements : OtherSourceTaps(e)
    \/ \E h \in Handles, in \in TickInputs : PollFire(h, in)
    \/ \E n \in Attempts, in \in TickInputs : AudioProcess(n, in)
    \/ \E n \in Attempts, features \in MeydaFeatures : MeydaCallback(n, features)

SpecVisualizer == InitVisualizer /\ [][NextVisualizer]_vars

\* ------------------------------- presets and the preset visualizer
\* setPreset(presetName, presetOptions): an unknown name throws; on an
\* initialized Visualizer the preset visualizer is replaced and started
\* again when the old one was running.
SetPreset(known, ctorFails) ==
    /\ LET v == Called(viz)
           wasRunning == v.visualizer /\ v.isRunning
           c == CreateVisualizer([v EXCEPT !.presetKnown = TRUE], ctorFails)
       IN viz' = IF ~known
                 THEN [v EXCEPT !.call = "setPreset", !.outcome = "threw"]
                 ELSE IF ~v.isInitialized
                 THEN [v EXCEPT !.presetKnown = TRUE,
                                !.call = "setPreset", !.outcome = "ok"]
                 ELSE IF c.threw
                 THEN [c.v EXCEPT !.call = "setPreset", !.outcome = "threw"]
                 ELSE [(IF wasRunning THEN BaseStart(c.v) ELSE c.v) EXCEPT
                         !.call = "setPreset", !.outcome = "ok"]
    /\ UNCHANGED <<this, objs, rafQueue, tapped, micPending, nextId, last, activated,
                   quiesced, suspended, held, legacy>>

\* The caller holds the preset visualizer it read from the Visualizer's
\* visualizer property (the current one, or one the Visualizer has
\* destroyed and dropped since).
HoldsVisualizer == viz.visualizer \/ viz.isDestroyed

\* start(), stop() and destroy() called on the preset visualizer itself.
BaseVisualizerStart ==
    /\ HoldsVisualizer
    /\ viz' = [BaseStart(Called(viz)) EXCEPT !.call = "base.start", !.outcome = "ok"]
    /\ UNCHANGED <<this, objs, rafQueue, tapped, micPending, nextId, last, activated,
                   quiesced, suspended, held, legacy>>

BaseVisualizerStop ==
    /\ HoldsVisualizer
    /\ viz' = [BaseStop(Called(viz)) EXCEPT !.call = "base.stop", !.outcome = "ok"]
    /\ UNCHANGED <<this, objs, rafQueue, tapped, micPending, nextId, last, activated,
                   quiesced, suspended, held, legacy>>

BaseVisualizerDestroy ==
    /\ HoldsVisualizer
    /\ viz' = [BaseDestroy(Called(viz)) EXCEPT
                 !.call = "base.destroy",
                 !.outcome = IF viz.isDestroyed THEN "again" ELSE "ok"]
    /\ UNCHANGED <<this, objs, rafQueue, tapped, micPending, nextId, last, activated,
                   quiesced, suspended, held, legacy>>

\* The pending animation frame of the preset visualizer fires.
Animate ==
    /\ viz.frame
    /\ viz' = [BaseAnimate(Called(viz)) EXCEPT !.call = "animate", !.outcome = "ok"]
    /\ UNCHANGED <<this, objs, rafQueue, tapped, micPending, nextId, last, activated,
                   quiesced, suspended, held, legacy>>

\* The Visualizer with its presets, its preset visualizer and the
\* animation frames, over an AudioSource that is not ticking.
NextPreset ==
    \/ \E supported \in BOOLEAN, ctorFails \in BOOLEAN :
          InitWithMicrophone(supported, ctorFails)
    \/ \E n \in Attempts : InitWithMicrophoneRejected(n)
    \/ \E n \in Attempts, fail \in MicFailPoints, ctorFails \in BOOLEAN :
          InitWithMicrophoneGranted(n, fail, ctorFails)
    \/ \E nodeOk \in BOOLEAN, ctxOk \in BOOLEAN, in \in TickInputs, ctorFails \in BOOLEAN :
          InitWithAnalyser(nodeOk, ctxOk, in, ctorFails)
    \/ \E e \in Elements \cup {0}, fail \in ElementFailPoints, in \in TickInputs,
          ctorFails \in BOOLEAN :
          InitWithAudioElement(e, fail, in, ctorFails)
    \/ \E known \in BOOLEAN, ctorFails \in BOOLEAN : SetPreset(known, ctorFails)
    \/ Start
    \/ Stop
    \/ VisualizerDestroy
    \/ BaseVisualizerStart
    \/ BaseVisualizerStop
    \/ BaseVisualizerDestroy
    \/ Animate

SpecPreset == InitVisualizer /\ [][NextPreset]_vars

\* ------------------------------------------------ the smoothing factor
\* Numbers a caller can pass as the constructor option smoothingFactor and
\* to setSmoothingFactor: inside [0, 1] and beyond either end.
OptionFactors == {-1, 0, 1, 2}

Max(a, b) == IF a > b THEN a ELSE b

\* setSmoothingFactor(factor)
SetSmoothingFactor(factor) ==
    /\ this' = [this EXCEPT !.smoothingFactor = Max(0, Min(1, factor))]
    /\ last' = Op("setSmoothingFactor", "ok", NULL, 0, 0)
    /\ UNCHANGED <<objs, rafQueue, tapped, micPending, nextId, activated, quiesced>>
    /\ UNCHANGED around

\* new AudioSource({smoothingFactor: f}) for any of these numbers.
InitOptions ==
    /\ this \in {NewAudioSource(f) : f \in OptionFactors}
    /\ objs = InitObjs
    /\ rafQueue = {}
    /\ tapped = {}
    /\ micPending = {}
    /\ nextId = 1
    /\ last = NoOp
    /\ activated = {}
    /\ quiesced = FALSE
    /\ suspended = {}
    /\ held = NotHeld
    /\ viz = NewVisualizer
    /\ legacy = NewLegacy

\* The life of an instance between ticks that smooth.
NextOptions ==
    \/ \E f \in OptionFactors : SetSmoothingFactor(f)
    \/ \E supported \in BOOLEAN : InitMicrophone(supported)
    \/ \E n \in Attempts : MicStreamRejected(n)
    \/ \E n \in Attempts, fail \in MicFailPoints : MicStreamGranted(n, fail)
    \/ \E e \in Elements \cup {0}, fail \in ElementFailPoints, in \in TickInputs :
          ConnectAudioElement(e, fail, in)
    \/ \E e \in Elements : OtherSourceTaps(e)
    \/ Destroy

SpecOptions == InitOptions /\ [][NextOptions]_vars

\* ------------------------------------------- a tap with one loud bin
\* A caller's analyser with 1024 bins (fftSize 2048) on a context that
\* samples at 44100 Hz; the buffer it delivers is 0 in every bin but one.
PeakBinCount == 1024

PeakBins == 0..MaxPeakBin

OneHot(k) == [i \in 1..PeakBinCount |-> IF i = k + 1 THEN 255 ELSE 0]

PeakInputs ==
    { [buf |-> OneHot(k), est |-> [throws |-> TRUE, pitch |-> 0, clarity |-> 0]] :
        k \in PeakBins }

NextPeak ==
    \/ \E in \in PeakInputs : ConnectExternalAnalyser(TRUE, TRUE, in)
    \/ \E h \in Handles, in \in PeakInputs : PollFire(h, in)
    \/ Destroy

SpecPeak == Init /\ [][NextPeak]_vars

\* ------------------------------------------------- suspended contexts
\* The platform or the page suspends a context (autoplay policy, a call of
\* suspend() by the owner of the context).
ContextSuspends(id) ==
    /\ ContextState(id) = "running"
    /\ suspended' = suspended \cup {id}
    /\ UNCHANGED <<this, objs, rafQueue, tapped, micPending, nextId, last, activated,
                   quiesced, held, viz, legacy>>

\* resume(): resumes the context the instance refers to when it is suspended.
Resume ==
    /\ IF this.audioContext # NULL /\ ContextState(this.audioContext) = "suspended"
       THEN /\ suspended' = suspended \ {this.audioContext}
            /\ last' = Op("resume", "ok", this.audioContext, 0, 0)
       ELSE /\ suspended' = suspended
            /\ last' = Op("resume", "noop", NULL, 0, 0)
    /\ UNCHANGED <<this, objs, rafQueue, tapped, micPending, nextId, activated,
                   quiesced, held, viz, legacy>>

NextResume ==
    \/ Next
    \/ \E id \in Ids : ContextSuspends(id)
    \/ Resume

SpecResume == Init /\ [][NextResume]_vars

\* ---------------------------------------------------- the legacy exports
\* The module keeps one AudioSource for its legacy API, together with
\* exported variables that mirror it.  The instance of the model is the one
\* initLegacyMicrophone() makes; legacy.legacyAudioSource tells whether the
\* module's reference to it is set (TRUE) or null (FALSE).

\* The instance is as `new AudioSource()` returns it.
AsConstructed == this = NewAudioSource(this.smoothingFactor) /\ micPending = {}

\* updateLegacy(): one mirroring step, which requests the next one unless
\* the reference is null or the instance is not initialized.
UpdateLegacy(l, t) ==
    IF ~l.legacyAudioSource \/ ~t.isInitialized
    THEN [l EXCEPT !.legacyPollFrameId = FALSE]
    ELSE [l EXCEPT !.exports.energy = t.audioData.energy,
                   !.exports.roughness = t.audioData.roughness,
                   !.exports.warmth = t.audioData.warmth,
                   !.exports.richness = t.audioData.richness,
                   !.exports.sharpness = t.audioData.sharpness,
                   !.exports.kurtosis = t.audioData.kurtosis,
                   !.exports.realpitch = t.audioData.pitch,
                   !.exports.realoctave = t.audioData.octave,
                   !.exports.dataArray = t.audioData.frequencyData,
                   !.exports.bufferLength = Len(t.audioData.frequencyData),
                   !.legacyPollFrameId = TRUE]

\* initLegacyMicrophone() after its await, when initMicrophone() has
\* resolved: reading legacyAudioSource.audioContext throws when the
\* reference is null.
AfterInitMicrophone(l, t) ==
    IF ~l.legacyAudioSource
    THEN [l EXCEPT !.awaiting = FALSE, !.call = "initLegacyMicrophone.resume",
                   !.outcome = "threwNull"]
    ELSE [UpdateLegacy([l EXCEPT !.exports.audioContext = t.audioContext,
                                 !.exports.analyser = t.analyser], t)
             EXCEPT !.legacyInitialized = TRUE, !.awaiting = FALSE,
                    !.call = "initLegacyMicrophone.resume", !.outcome = "ok"]

\* initLegacyMicrophone() up to its await.
InitLegacyMicrophone(supported) ==
    /\ UNCHANGED <<suspended, held, viz>>
    /\ IF legacy.legacyInitialized
       THEN /\ legacy' = [legacy EXCEPT !.quiet = FALSE, !.call = "initLegacyMicrophone",
                                        !.outcome = "noop"]
            /\ UNCHANGED <<this, objs, rafQueue, tapped, micPending, nextId, last,
                           activated, quiesced>>
       ELSE /\ AsConstructed
            /\ InitMicrophoneStep(supported)
            /\ legacy' = [legacy EXCEPT !.legacyAudioSource = TRUE,
                                        !.awaiting = supported,
                                        !.quiet = FALSE,
                                        !.call = "initLegacyMicrophone",
                                        !.outcome = IF supported THEN "pending" ELSE "threw"]

\* getUserMedia rejects: initMicrophone() rejects and so does the awaiting
\* initLegacyMicrophone().
LegacyMicRejected(n) ==
    /\ MicStreamRejectedStep(n)
    /\ legacy' = [legacy EXCEPT !.awaiting = FALSE, !.call = "initLegacyMicrophone.resume",
                                !.outcome = "threw"]
    /\ UNCHANGED <<suspended, held, viz>>

\* getUserMedia resolves: the rest of initMicrophone(), then the rest of
\* the awaiting initLegacyMicrophone().
LegacyMicGranted(n, fail) ==
    /\ MicStreamGrantedStep(n, fail)
    /\ legacy' = IF last'.result = "threw"
                 THEN [legacy EXCEPT !.awaiting = FALSE,
                                     !.call = "initLegacyMicrophone.resume",
                                     !.outcome = "threw"]
                 ELSE AfterInitMicrophone(legacy, this')
    /\ UNCHANGED <<suspended, held, viz>>

\* The animation frame requested by updateLegacy() fires.
UpdateLegacyFrame ==
    /\ legacy.legacyPollFrameId
    /\ legacy' = [UpdateLegacy(legacy, this) EXCEPT !.call = "updateLegacy", !.outcome = "ok"]
    /\ UNCHANGED <<this, objs, rafQueue, tapped, micPending, nextId, last, activated,
                   quiesced, suspended, held, viz>>

\* destroyLegacyAudio()
DestroyLegacyAudio ==
    /\ IF legacy.legacyAudioSource
       THEN DestroyStep
       ELSE UNCHANGED <<this, objs, rafQueue, tapped, micPending, nextId, last,
                        activated, quiesced>>
    /\ legacy' = [legacy EXCEPT !.legacyPollFrameId = FALSE,
                                !.legacyAudioSource = FALSE,
                                !.legacyInitialized = FALSE,
                                !.exports = DefaultMirror,
                                !.quiet = TRUE,
                                !.call = "destroyLegacyAudio", !.outcome = "ok"]
    /\ UNCHANGED <<suspended, held, viz>>

\* The legacy API: the module's instance is reached through it only.
NextLegacy ==
    \/ \E supported \in BOOLEAN : InitLegacyMicrophone(supported)
    \/ \E n \in Attempts : LegacyMicRejected(n)
    \/ \E n \in Attempts, fail \in MicFailPoints : LegacyMicGranted(n, fail)
    \/ UpdateLegacyFrame
    \/ DestroyLegacyAudio
    \/ \E n \in Attempts, in \in TickInputs : AudioProcess(n, in)
    \/ \E n \in Attempts, features \in MeydaFeatures : MeydaCallback(n, features)

SpecLegacy == Init /\ [][NextLegacy]_vars

\* ------------------------------------------------------------------ claims
\* A step that is a call of one of the three initializers.
InitializerCall ==
    \/ \E supported \in BOOLEAN : InitMicrophone(supported)
    \/ \E nodeOk \in BOOLEAN, ctxOk \in BOOLEAN, in \in TickInputs :
          ConnectExternalAnalyser(nodeOk, ctxOk, in)
    \/ \E e \in Elements \cup {0}, fail \in ElementFailPoints, in \in TickInputs :
          ConnectAudioElement(e, fail, in)

\* The fields that refer to audio-graph resources.
RefFields == {"audioContext", "analyser", "source", "scriptProcessor"}

Released(c) == c >= 1

\* C1: once an initializer has completed successfully and until destroy(),
\* every call of an initializer returns without throwing (the warning
\* branch) and changes nothing: no field of the instance, no platform
\* object, no pending animation frame, no stream request, no tap.
C1_ReinitIsNoOp ==
    [][ (activated # {} /\ InitializerCall)
        => /\ last'.result = "noop"
           /\ this' = this
           /\ objs' = objs
           /\ rafQueue' = rafQueue
           /\ micPending' = micPending
           /\ tapped' = tapped ]_vars

\* C1 witness: an initializer was called on an instance that an earlier
\* initializer had activated, and returned through the warning branch.
C1_Witness ==
    /\ activated # {}
    /\ last.op \in {"initMicrophone", "connectExternalAnalyser", "connectAudioElement"}
    /\ last.result = "noop"

\* C2: at most one acquisition strategy is activated between two
\* destroy() calls, and no step replaces a non-null audioContext,
\* analyser, source or scriptProcessor reference by another one.
C2_OneStrategyNoOverwrite ==
    [][ /\ Cardinality(activated') <= 1
        /\ \A f \in RefFields :
              (this[f] # NULL /\ this'[f] # NULL) => this'[f] = this[f] ]_vars

\* C3: the analyser and the context of the caller of
\* connectExternalAnalyser are never disconnected and never closed.
C3_ExternalNeverReleased ==
    /\ objs[EXT].an = Live
    /\ objs[EXT].ctx = Live

\* C4: destroy() on an instance activated by initMicrophone() or
\* connectAudioElement() leaves the source and the analyser that the
\* initializer created disconnected and its context closed.
C4_DestroyReleasesOwned ==
    [][ Destroy
        => \A a \in activated :
              a[1] \in {"mic", "element"}
              => /\ Released(objs'[a[2]].src)
                 /\ Released(objs'[a[2]].an)
                 /\ Released(objs'[a[2]].ctx) ]_vars

\* C5: a destroy() that follows a destroy() changes no field and no
\* platform object and makes no cancel, stop, disconnect or close call.
C5_DestroyIdempotent ==
    [][ (last.op = "destroy" /\ Destroy)
        => /\ this' = this
           /\ objs' = objs
           /\ rafQueue' = rafQueue
           /\ last'.calls = 0 ]_vars

\* C5 witness: destroy() ran twice in a row on an instance whose first
\* destroy() had resources to release.
C5_Witness ==
    /\ last.op = "destroy"
    /\ last.result = "again"
    /\ \E n \in Ids : Released(objs[n].ctx) \/ Released(objs[n].meyda)

\* C6: destroy() leaves the feature snapshot in its default shape.
C6_DestroyResetsSnapshot ==
    [][ Destroy => this'.audioData = DefaultAudioData ]_vars

\* No tick driver is registered: no pending poll, no audio-processing
\* callback, no running feature extractor.
NoTickDriver ==
    /\ rafQueue = {}
    /\ \A n \in Attempts : objs[n].sp # Live /\ objs[n].meyda # Live

\* C7: from the return of destroy() until the next call of an initializer
\* no tick driver is registered and the feature snapshot is not written.
C7_QuietAfterDestroy ==
    [][ quiesced'
        => /\ NoTickDriver'
           /\ quiesced => this'.audioData = this.audioData ]_vars

\* A step in which initMicrophone() or connectAudioElement() fails inside
\* its try block (the error reaches the caller after the rollback).
FailedOwnedInit ==
    \/ \E n \in Attempts : MicStreamRejected(n)
    \/ \E n \in Attempts, fail \in MicFailPoints :
          MicStreamGranted(n, fail) /\ last'.result = "threw"
    \/ \E e \in Elements, fail \in ElementFailPoints, in \in TickInputs :
          ConnectAudioElement(e, fail, in) /\ last'.result = "threw"

\* C8: when initMicrophone() or connectAudioElement() fails, every
\* resource the call created is released (stream, nodes, context, feature
\* extractor) and the five references are null.
C8_FailureRollsBack ==
    [][ FailedOwnedInit
        => /\ \A f \in RefFields \cup {"meydaAnalyser"} : this'[f] = NULL
           /\ last'.id # NULL
              => \A k \in {"ctx", "an", "src", "sp", "meyda", "stream"} :
                    objs'[last'.id][k] = Absent \/ Released(objs'[last'.id][k]) ]_vars

\* C9: connectExternalAnalyser on an uninitialized instance with an
\* argument of the wrong type throws and changes nothing (fields,
\* platform objects, poll queue); with a wrong analyser the error is the
\* analyser's, whatever the context is.
C9_InvalidExternalArgs ==
    [][ \A nodeOk \in BOOLEAN, ctxOk \in BOOLEAN :
          ( /\ ~this.isInitialized
            /\ ~(nodeOk /\ ctxOk)
            /\ \E in \in TickInputs : ConnectExternalAnalyser(nodeOk, ctxOk, in) )
          => /\ last'.result = (IF ~nodeOk THEN "threwNode" ELSE "threwContext")
             /\ this' = this
             /\ objs' = objs
             /\ rafQueue' = rafQueue ]_vars

\* C9 witness: the call was rejected for its analyser argument on an
\* uninitialized instance.
C9_Witness ==
    /\ last.op = "connectExternalAnalyser"
    /\ last.result = "threwNode"
    /\ ~this.isInitialized

\* The outcome C10 describes for connectAudioElement(e): an error, no new
\* tap, the context and analyser of the call rolled back, the instance
\* uninitialized.
ElementConnectRejected(e) ==
    /\ last'.op = "connectAudioElement"
    /\ last'.result = "threw"
    /\ tapped' = tapped
    /\ ~this'.isInitialized
    /\ \A f \in RefFields : this'[f] = NULL
    /\ last'.id # NULL
       => /\ objs'[last'.id].src = Absent
          /\ Released(objs'[last'.id].an)
          /\ Released(objs'[last'.id].ctx)

\* C10 as stated: connectAudioElement(e) for an element that has a tap
\* fails on any AudioSource.
C10_SecondTapFailsOnAnySource ==
    [][ \A e \in Elements :
          (e \in tapped /\ \E fail \in ElementFailPoints, in \in TickInputs :
                              ConnectAudioElement(e, fail, in))
          => ElementConnectRejected(e) ]_vars

\* C10 amended: connectAudioElement(e) for an element that has a tap, on
\* an AudioSource that is not initialized, fails with an error, creates
\* no second tap, rolls back its context and analyser and leaves the
\* instance uninitialized.
C10_SecondTapFails ==
    [][ \A e \in Elements :
          ( /\ e \in tapped
            /\ ~this.isInitialized
            /\ \E fail \in ElementFailPoints, in \in TickInputs :
                  ConnectAudioElement(e, fail, in) )
          => ElementConnectRejected(e) ]_vars

\* C10 witness: a call for a tapped element was rejected at
\* createMediaElementSource and its context and analyser were released.
C10_Witness ==
    /\ last.op = "connectAudioElement"
    /\ last.result = "threw"
    /\ last.elem \in tapped
    /\ last.id # NULL
    /\ objs[last.id].src = Absent
    /\ Released(objs[last.id].ctx)
    /\ Released(objs[last.id].an)

\* C11: resume() resumes a context only when the instance is initialized,
\* the context is one the instance created (microphone or audio-element
\* initializer) and it is suspended; in every other case (a context
\* supplied by the caller, a running context, an instance that is not
\* initialized) no context changes its state.
C11_ResumeOnlyOwned ==
    [][ Resume
        => IF /\ this.isInitialized
              /\ this.audioContext \in Attempts
              /\ ContextState(this.audioContext) = "suspended"
           THEN suspended' = suspended \ {this.audioContext}
           ELSE suspended' = suspended ]_vars

\* A step in which one tick runs on the platform input in: a poll
\* iteration of an initialized instance, the first poll iteration inside
\* a successful connectExternalAnalyser / connectAudioElement, or the
\* audio-processing callback.
TickStep(in) ==
    \/ this.isInitialized /\ \E h \in Handles : PollFire(h, in)
    \/ \E n \in Attempts : AudioProcess(n, in)
    \/ /\ ~this.isInitialized
       /\ last'.result = "ok"
       /\ \/ ConnectExternalAnalyser(TRUE, TRUE, in)
          \/ \E e \in Elements, fail \in ElementFailPoints : ConnectAudioElement(e, fail, in)

\* The estimator returned a frequency and a clarity that pass the gate.
PassesGate(est) ==
    /\ ~est.throws
    /\ est.clarity > ClarityThreshold
    /\ est.pitch > MinFrequency
    /\ est.pitch < MaxFrequency

\* C12: after every tick, pitch and octave are both non-null when the
\* estimator returned a frequency and a clarity with clarity above the
\* threshold and the frequency strictly inside (minFrequency,
\* maxFrequency), and both null in every other case.
C12_PitchGate ==
    [][ \A in \in TickInputs :
          TickStep(in)
          => IF PassesGate(in.est)
             THEN this'.audioData.pitch # "null" /\ this'.audioData.octave # NULL
             ELSE this'.audioData.pitch = "null" /\ this'.audioData.octave = NULL ]_vars

\* The snapshot fields a tick computes apart from pitch and octave.
FieldsBesidePitch(data) ==
    [f \in (ScalarFields \ {"pitch", "octave"}) \cup {"frequencyData", "timeDomainData"}
       |-> data[f]]

\* The tick reaches the estimator: _updatePitch has an analyser and a
\* context to read the samples from.
EstimatorRuns == this.analyser # NULL /\ this.audioContext # NULL

\* C13: when the estimator throws during a tick, the tick ends normally:
\* pitch and octave are null, every other snapshot field is what the
\* tick computed from the frequency buffer, and the driver of the tick
\* stays active (the poll loop has its next iteration scheduled, the
\* audio-processing callback stays registered).
C13_EstimatorThrowIsCaught ==
    [][ \A in \in TickInputs :
          in.est.throws
          => /\ \A h \in Handles :
                  this.isInitialized /\ EstimatorRuns /\ PollFire(h, in)
                  => /\ this'.audioData.pitch = "null"
                     /\ this'.audioData.octave = NULL
                     /\ LET t1 == UpdateFrequencyData(this, in.buf, SampleRate)
                            t2 == IF this.isExternal /\ this.meydaAnalyser = NULL
                                  THEN CalculateFeaturesFromFrequencyData(t1, SampleRate)
                                  ELSE t1
                        IN FieldsBesidePitch(this'.audioData) = FieldsBesidePitch(t2.audioData)
                     /\ this'.pollFrameId \in rafQueue'
             /\ \A n \in Attempts :
                  EstimatorRuns /\ AudioProcess(n, in)
                  => /\ this'.audioData.pitch = "null"
                     /\ this'.audioData.octave = NULL
                     /\ FieldsBesidePitch(this'.audioData)
                          = FieldsBesidePitch(UpdateFrequencyData(this, in.buf, SampleRate).audioData)
                     /\ objs'[n].sp = Live
             /\ ~this.isInitialized /\ ConnectExternalAnalyser(TRUE, TRUE, in)
                  => /\ this'.audioData.pitch = "null"
                     /\ this'.audioData.octave = NULL
                     /\ this'.pollFrameId \in rafQueue'
                     /\ last'.result = "ok" ]_vars

\* A tick whose estimator threw has run on an instance that has its
\* analyser and context: the buffer that comes with the throwing estimator
\* is in the snapshot, the pitch is null, the driver is still there.
C13_Witness ==
    /\ this.isInitialized
    /\ this.analyser # NULL /\ this.audioContext # NULL
    /\ this.audioData.frequencyData = ZeroBuffer
    /\ this.audioData.pitch = "null"
    /\ this.pitchDetector # NULL
    /\ \/ this.pollFrameId \in rafQueue
       \/ this.scriptProcessor # NULL /\ objs[this.scriptProcessor].sp = Live

\* C14: for every bin k of a 1024-bin buffer that is 0 everywhere except
\* 255 at bin k, at sample rate 44100, a tick publishes dominantBin = k
\* and dominantFrequency = k * (22050 / 1024) (whole Hz here).
C14_DominantIsSpectrumPeak ==
    [][ \A in \in PeakInputs, k \in PeakBins :
          in.buf = OneHot(k) /\ TickStep(in)
          => /\ this'.audioData.dominantBin = k
             /\ this'.audioData.dominantFrequency = (k * 22050) \div PeakBinCount ]_vars

\* C15: after every tick bassFrequency lies in [0, 360] and bassEnergy in
\* [0, 1] (both are 0 before the first tick).
C15_BassInRange ==
    /\ this.audioData.bassFrequency >= 0
    /\ this.audioData.bassFrequency <= 360
    /\ this.audioData.bassEnergy >= 0
    /\ this.audioData.bassEnergy <= 1

\* A poll iteration that takes the fallback path (a tap without a feature
\* extractor) and reads the buffer in.buf from the analyser.
FallbackTick(in) ==
    \/ /\ this.isInitialized /\ this.isExternal /\ this.meydaAnalyser = NULL
       /\ this.analyser # NULL /\ this.audioContext # NULL
       /\ \E h \in Handles : PollFire(h, in)
    \/ /\ ~this.isInitialized
       /\ ConnectExternalAnalyser(TRUE, TRUE, in)

\* C16: a fallback tick on a buffer that is 0 in every bin computes energy
\* 0 (so richness, min(2 * energy, 1), is 0 and the published energy is
\* the accumulator blended with 0) and flatness 0 (published as roughness).
C16_SilentFallback ==
    [][ \A in \in TickInputs :
          in.buf = ZeroBuffer /\ FallbackTick(in)
          => /\ this'.audioData.energy = Smooth(this, this.smoothedValues.energy, 0)
             /\ this'.audioData.richness = 0
             /\ this'.audioData.roughness = 0 ]_vars

\* The four smoothed perceptual features.
SmoothedFields == {"energy", "warmth", "richness", "sharpness"}

\* C17: on every tick that updates the perceptual features (the callback
\* of the feature extractor and the fallback computation), each of energy,
\* warmth, richness and sharpness is published as
\* accumulator * factor + raw * (1 - factor), where raw is what the tick
\* publishes under factor 0: under factor 1 all four keep the values of
\* their accumulators.
C17_AllFourSmoothed ==
    [][ /\ \A n \in Attempts, features \in MeydaFeatures :
             features.truthy /\ MeydaCallback(n, features)
             => LET raw == UpdateFeatures([this EXCEPT !.smoothingFactor = 0], features)
                IN \A f \in SmoothedFields :
                     this'.audioData[f]
                       = Smooth(this, this.smoothedValues[f], raw.audioData[f])
        /\ \A in \in TickInputs :
             FallbackTick(in)
             => LET t1 == UpdatePitch(UpdateFrequencyData(
                            [this EXCEPT !.audioContext = EXT, !.analyser = EXT],
                            in.buf, SampleRate), in.est)
                    raw == CalculateFeaturesFromFrequencyData(
                             [t1 EXCEPT !.smoothingFactor = 0], SampleRate)
                IN \A f \in SmoothedFields :
                     this'.audioData[f]
                       = Smooth(this, this.smoothedValues[f], raw.audioData[f]) ]_vars

\* C18: the smoothing factor lies within [0, 1] in every reachable state:
\* from the constructor on, and after every setSmoothingFactor(f).
C18_FactorInUnitInterval ==
    /\ this.smoothingFactor >= 0
    /\ this.smoothingFactor <= 1

\* What the caller reads through the object it holds: the live snapshot,
\* or the copied scalars together with the buffers the copy refers to.
Seen ==
    IF held.kind # "copy" THEN this.audioData
    ELSE [f \in DOMAIN DefaultAudioData |->
            IF f \in ScalarFields THEN held.scalars[f]
            ELSE IF held.sharesBuffers THEN this.audioData[f]
            ELSE DefaultAudioData[f]]

C20_StartNeedsInit ==
    [][ Start /\ ~viz.completed
        => /\ viz'.outcome = "threw"
           /\ viz'.isRunning = viz.isRunning
           /\ viz'.frame = viz.frame
           /\ ~viz'.isRunning /\ ~viz'.frame ]_vars

\* start() has thrown after an initializer that failed inside the
\* AudioSource.
C20_Witness ==
    /\ viz.call = "start"
    /\ viz.outcome = "threw"
    /\ ~viz.completed
    /\ last.op \in {"connectAudioElement", "connectExternalAnalyser", "micResume"}
    /\ last.result \in {"threw", "threwNode", "threwContext", "threwArg"}

\* C21: in no reachable state are both tick drivers of the instance
\* active: an audio-processing callback registered on a live script
\* processor together with a pending poll callback.
C21_OneTickDriver ==
    ~ /\ rafQueue # {}
      /\ \E n \in Attempts : objs[n].sp = Live

\* The bins floor(20 / binSize) .. min(ceil(120 / binSize), binCount - 1)
\* of a buffer of binCount bins, binSize = (sampleRate / 2) / binCount.
BassBins(binCount, sampleRate) ==
    ((20 * 2 * binCount) \div sampleRate)
      .. Min(CeilDiv(120 * 2 * binCount, sampleRate), binCount - 1)

TickDriverRegistered(t, platform, raf) ==
    \/ t.pollFrameId # NULL /\ t.pollFrameId \in raf
    \/ t.scriptProcessor # NULL /\ platform[t.scriptProcessor].sp = Live

\* A step in which an initializer fails after its argument checks.
FailedInit ==
    \/ FailedOwnedInit
    \/ /\ \E in \in TickInputs : ConnectExternalAnalyser(TRUE, TRUE, in)
       /\ last'.result = "threw"

\* C23: an initialized instance has an audio context, an analyser and a
\* registered tick driver, and a failed initializer leaves the instance
\* uninitialized (the next initializer call is a fresh attempt).
C23_InitializedMeansComplete ==
    [][ /\ this'.isInitialized
           => /\ this'.audioContext # NULL
              /\ this'.analyser # NULL
              /\ TickDriverRegistered(this', objs', rafQueue')
        /\ FailedInit => ~this'.isInitialized ]_vars

\* C24: while the external-tap strategy is active and no feature
\* extractor is attached (the features come from the fallback
\* computation), the published kurtosis is 0, whatever the instance was
\* used for before.
C24_FallbackKurtosisZero ==
    ( /\ <<"external", EXT>> \in activated
      /\ this.isInitialized
      /\ this.isExternal
      /\ this.meydaAnalyser = NULL )
    => this.audioData.kurtosis = 0

\* The isRunning property of the Visualizer.
IsRunning(v) == v.visualizer /\ v.isRunning

\* What C25 says holds after setPreset: one preset visualizer exists, it
\* is a new one, the Visualizer refers to it and still has its audio
\* source, and isRunning is what it was.
PresetReplaced ==
    /\ viz'.instances = 1
    /\ viz'.serial # viz.serial
    /\ viz'.visualizer /\ ~viz'.isDestroyed
    /\ viz'.audioSource
    /\ this' = this
    /\ IsRunning(viz') = IsRunning(viz)

C26_DestroyedStaysStill ==
    [][ /\ viz'.isDestroyed => ~viz'.isRunning /\ ~viz'.frame
        /\ (viz.isDestroyed /\ viz'.isDestroyed /\ viz'.serial = viz.serial)
             => ~viz'.drew
        /\ (viz.isDestroyed /\ BaseVisualizerDestroy)
             => /\ viz'.outcome = "again"
                /\ viz'.isDestroyed
                /\ viz'.instances = viz.instances
                /\ viz'.visualizer = viz.visualizer ]_vars

\* start() has been called on a destroyed preset visualizer that the
\* Visualizer, initialized and with its container, still refers to.
C26_Witness ==
    /\ viz.isDestroyed
    /\ viz.call = "base.start"
    /\ viz.visualizer
    /\ viz.isInitialized
    /\ ~viz.isRunning

\* C27: at most one poll callback of the instance is pending, and
\* _pollFrameId holds the handle of the pending one, so that destroy()
\* cancels it: no poll callback is pending after destroy().
C27_OnePollLoop ==
    [][ /\ Cardinality(rafQueue') <= 1
        /\ rafQueue' # {} => this'.pollFrameId \in rafQueue'
        /\ Destroy => rafQueue' = {} ]_vars

\* A poll loop is pending on an instance that was initialized again after
\* an earlier session with a feature extractor ended.
C27_Witness ==
    /\ rafQueue # {}
    /\ this.pollFrameId \in rafQueue
    /\ this.isInitialized
    /\ last.op = "connectExternalAnalyser"
    /\ \E n \in Attempts : Released(objs[n].meyda)

\* C28: no audio context is closed twice and no source, analyser or
\* script processor is disconnected twice by the instance.
C28_NoDoubleRelease ==
    \A id \in Ids, k \in {"ctx", "an", "src", "sp"} : objs[id][k] <= 1

\* A step that is a call of one of the three initializers of the
\* Visualizer, with a preset constructor that fails or not.
InitWithCall(ctorFails) ==
    \/ \E supported \in BOOLEAN : InitWithMicrophone(supported, ctorFails)
    \/ \E nodeOk \in BOOLEAN, ctxOk \in BOOLEAN, in \in TickInputs :
          InitWithAnalyser(nodeOk, ctxOk, in, ctorFails)
    \/ \E e \in Elements \cup {0}, fail \in ElementFailPoints, in \in TickInputs :
          InitWithAudioElement(e, fail, in, ctorFails)

\* What C29 says of such a call on an initialized Visualizer: the
\* AudioSource and its platform are untouched, the preset visualizer is
\* replaced by a new one, and that one is not running.
ReinitReplacesVisualizer ==
    /\ this' = this
    /\ objs' = objs
    /\ rafQueue' = rafQueue
    /\ micPending' = micPending
    /\ tapped' = tapped
    /\ viz'.serial # viz.serial
    /\ viz'.visualizer /\ ~viz'.isDestroyed
    /\ viz'.instances = 1
    /\ ~IsRunning(viz')
    /\ ~viz'.frame

\* isRunning of the Visualizer turns true only in a start() call (of the
\* Visualizer or of its preset visualizer).
OnlyStartStarts ==
    (~IsRunning(viz) /\ IsRunning(viz')) => (Start \/ BaseVisualizerStart)

\* C29 as stated: every initWith...() call on an initialized Visualizer
\* leaves the audio source untouched and replaces the preset visualizer
\* by a new one that is not running.
C29_ReinitAlwaysReplaces ==
    [][ /\ \A ctorFails \in BOOLEAN :
             viz.isInitialized /\ InitWithCall(ctorFails) => ReinitReplacesVisualizer
        /\ OnlyStartStarts ]_vars

\* C29 amended: an initWith...() call on an initialized Visualizer leaves
\* the audio source untouched and destroys the preset visualizer; when
\* the constructor of the new one does not throw, a new one exists that
\* is not running; either way isRunning is false after the call, until
\* start() is called.
C29_ReinitStopsRendering ==
    [][ /\ viz.isInitialized /\ InitWithCall(FALSE)
             => ReinitReplacesVisualizer /\ viz'.outcome = "ok"
        /\ viz.isInitialized /\ InitWithCall(TRUE)
             => /\ this' = this
                /\ objs' = objs
                /\ viz'.instances = 0
                /\ ~IsRunning(viz')
                /\ ~viz'.frame
                /\ viz'.outcome = "threw"
        /\ OnlyStartStarts ]_vars

\* An initializer has been called on an initialized Visualizer whose
\* AudioSource polls a tap; the new preset visualizer is not running.
C29_Witness ==
    /\ viz.call \in {"initWithMicrophone", "initWithAudioElement"}
    /\ viz.outcome = "ok"
    /\ last.result = "noop"
    /\ this.isInitialized
    /\ rafQueue # {}
    /\ viz.visualizer
    /\ ~IsRunning(viz)

\* C30: once destroyLegacyAudio() has returned, and until
\* initLegacyMicrophone() is called again, every legacy export has its
\* default value, no mirroring animation frame is pending and the legacy
\* AudioSource is not initialized - whatever initLegacyMicrophone() calls
\* started before it do when they resume.
C30_LegacyQuietAfterDestroy ==
    legacy.quiet =>
        /\ legacy.exports = DefaultMirror
        /\ ~legacy.legacyPollFrameId
        /\ ~this.isInitialized

====
